---- MODULE Spec2Model ----
(***************************************************************************)
(* Model of order.py: the Streamlit script of the OFT backlog assistant.   *)
(*                                                                         *)
(* A string is a sequence of one-character strings, so that strip() and    *)
(* lower() are computed character by character.  Literal text of a report  *)
(* is kept as fragments inside such a sequence.  pandas' missing value of  *)
(* a "string" column (<NA>) and Python's None are one-element sequences    *)
(* holding a token no character equals.                                    *)
(*                                                                         *)
(* An uploaded table is the frame pd.read_excel returns: its headers and,  *)
(* per row, the cells of the six required columns (text, <NA>, or for the  *)
(* quantity a number, a text or NaN).  Quantities are whole numbers; a     *)
(* quantity given as text is a run of digits or no number at all.  One     *)
(* step of the model is one interaction of the user with the page and the  *)
(* script run it starts, the run started by st.rerun() included.           *)
(***************************************************************************)
EXTENDS Integers, Sequences, FiniteSets, TLC

\* ---------------------------------------------------------------- bounds
\* Ask is offered while fewer than MaxAsks exchanges are in the history.
MaxAsks == 2

\* ---------------------------------------------------------------- strings
NA == <<"<NA>">>
None == <<"None">>

Whitespace == {" ", "\t", "\n"}

UpperAlpha == <<"A","B","C","D","E","F","G","H","I","J","K","L","M",
                "N","O","P","Q","R","S","T","U","V","W","X","Y","Z">>
LowerAlpha == <<"a","b","c","d","e","f","g","h","i","j","k","l","m",
                "n","o","p","q","r","s","t","u","v","w","x","y","z">>
Digits == <<"0","1","2","3","4","5","6","7","8","9">>

\* Code point order of the characters the model uses (ASCII order).
CodeOrder == <<"\t", "\n", " ">> \o Digits \o UpperAlpha \o <<"_">> \o LowerAlpha

CodePoint ==
    [c \in {CodeOrder[i] : i \in 1..Len(CodeOrder)} |->
        CHOOSE i \in 1..Len(CodeOrder) : CodeOrder[i] = c]

Ord(c) == CodePoint[c]

RECURSIVE LStrip(_)
LStrip(s) ==
    IF s = <<>> THEN s
    ELSE IF Head(s) \in Whitespace THEN LStrip(Tail(s)) ELSE s

RECURSIVE RStrip(_)
RStrip(s) ==
    IF s = <<>> THEN s
    ELSE IF s[Len(s)] \in Whitespace THEN RStrip(SubSeq(s, 1, Len(s) - 1)) ELSE s

\* Series.str.strip() / Index.str.strip(): a missing value stays missing.
Strip(s) == IF s = NA THEN NA ELSE RStrip(LStrip(s))

LowerOf ==
    [c \in {UpperAlpha[i] : i \in 1..Len(UpperAlpha)} |->
        LowerAlpha[CHOOSE i \in 1..Len(UpperAlpha) : UpperAlpha[i] = c]]

LowerChar(c) == IF c \in DOMAIN LowerOf THEN LowerOf[c] ELSE c

\* Series.str.lower() and str.lower().
Lower(s) == IF s = NA THEN NA ELSE [i \in 1..Len(s) |-> LowerChar(s[i])]

\* s < t for strings, as Python and pandas order them.
RECURSIVE StrLess(_, _)
StrLess(s, t) ==
    IF t = <<>> THEN FALSE
    ELSE IF s = <<>> THEN TRUE
    ELSE IF Head(s) = Head(t) THEN StrLess(Tail(s), Tail(t))
    ELSE Ord(Head(s)) < Ord(Head(t))

\* k < l for tuples of strings (group keys), component by component.
RECURSIVE KeyLess(_, _)
KeyLess(k, l) ==
    IF l = <<>> THEN FALSE
    ELSE IF k = <<>> THEN TRUE
    ELSE IF Head(k) = Head(l) THEN KeyLess(Tail(k), Tail(l))
    ELSE StrLess(Head(k), Head(l))

RECURSIVE SortedStrs(_)
SortedStrs(S) ==
    IF S = {} THEN <<>>
    ELSE LET m == CHOOSE x \in S : \A y \in S \ {x} : StrLess(x, y)
         IN <<m>> \o SortedStrs(S \ {m})

RECURSIVE SortedKeys(_)
SortedKeys(S) ==
    IF S = {} THEN <<>>
    ELSE LET m == CHOOSE x \in S : \A y \in S \ {x} : KeyLess(x, y)
         IN <<m>> \o SortedKeys(S \ {m})

RECURSIVE SumSeq(_)
SumSeq(q) == IF q = <<>> THEN 0 ELSE Head(q) + SumSeq(Tail(q))

\* ---------------------------------------------------------------- load_data
Str_SOLDTO == <<"S","O","L","D","T","O">>
Str_Type == <<"T","y","p","e">>
Str_Incoterm == <<"I","n","c","o","t","e","r","m">>
Str_Status_Summary == <<"S","t","a","t","u","s"," ","S","u","m","m","a","r","y">>
Str_ORDERED_QUANTITY == <<"O","R","D","E","R","E","D","_","Q","U","A","N","T","I","T","Y">>
Str_City == <<"C","i","t","y">>

Str_backlog == <<"b","a","c","k","l","o","g">>
Str_dispatched == <<"d","i","s","p","a","t","c","h","e","d">>

required_cols == <<Str_SOLDTO, Str_Type, Str_Incoterm, Str_Status_Summary,
                   Str_ORDERED_QUANTITY, Str_City>>

\* df_raw.columns.str.strip()
StrippedColumns(columns) == [i \in 1..Len(columns) |-> Strip(columns[i])]

\* missing = [c for c in required_cols if c not in df_raw.columns]
NotAmong(columns) ==
    SelectSeq(required_cols,
              LAMBDA c : \A i \in 1..Len(columns) : columns[i] # c)

\* Variant: line 90 left out, the headers compared as read.
missing_NoStrip(columns) == NotAmong(columns)

\* missing, the headers stripped first (line 90)

missing(columns) == NotAmong(StrippedColumns(columns))

\* A cell of ORDERED_QUANTITY is a number, a text or empty (NaN).
NumCell(n) == [t |-> "num", n |-> n, s |-> <<>>]
TextCell(s) == [t |-> "str", n |-> 0, s |-> s]
NaNCell == [t |-> "nan", n |-> 0, s |-> <<>>]

DigitVal(c) == (CHOOSE i \in 1..Len(Digits) : Digits[i] = c) - 1

IsDigits(s) ==
    /\ s # <<>>
    /\ \A i \in 1..Len(s) : \E d \in 1..Len(Digits) : Digits[d] = s[i]

RECURSIVE ParseDigits(_)
ParseDigits(s) ==
    IF s = <<>> THEN 0
    ELSE 10 * ParseDigits(SubSeq(s, 1, Len(s) - 1)) + DigitVal(s[Len(s)])

\* pd.to_numeric(..., errors="coerce"): a number stays, a text of digits is
\* parsed, anything else becomes NaN.
to_numeric(cell) ==
    IF cell.t = "num" THEN cell
    ELSE IF cell.t = "str" /\ IsDigits(cell.s) THEN NumCell(ParseDigits(cell.s))
    ELSE NaNCell

\* .fillna(0) of the coerced quantity
fillna0(cell) == IF cell.t = "nan" THEN 0 ELSE cell.n

\* lines 106-114: the normalized row
Normalize(row) ==
    [SOLDTO |-> Strip(row.SOLDTO),
     Type |-> Strip(row.Type),
     Incoterm |-> Strip(row.Incoterm),
     City |-> Strip(row.City),
     Status_Summary |-> Lower(Strip(row.Status_Summary)),
     ORDERED_QUANTITY |-> fillna0(to_numeric(row.ORDERED_QUANTITY))]

NormalizedTable(rows) == [i \in 1..Len(rows) |-> Normalize(rows[i])]

\* group_cols = ["SOLDTO", "City", "Type", "Incoterm"]
GroupKey(r) == <<r.SOLDTO, r.City, r.Type, r.Incoterm>>

\* groupby(...) has dropna=True: a row with a missing value in a group
\* column belongs to no group.
HasNaKey(r) == \E i \in 1..4 : GroupKey(r)[i] = NA

\* df_raw[df_raw["Status Summary"] == status]: the indices of the rows kept
\* (a missing status compares as missing and is not selected).
StatusRows(norm, status) ==
    {i \in 1..Len(norm) : norm[i].Status_Summary = status}

RECURSIVE SumQty(_, _)
SumQty(norm, I) ==
    IF I = {} THEN 0
    ELSE LET i == CHOOSE x \in I : TRUE
         IN norm[i].ORDERED_QUANTITY + SumQty(norm, I \ {i})

\* .groupby(group_cols)["ORDERED_QUANTITY"].sum(): key -> sum
GroupSumOver(norm, I) ==
    [k \in {GroupKey(norm[i]) : i \in I} |->
        SumQty(norm, {i \in I : GroupKey(norm[i]) = k})]

GroupSum(norm, status) ==
    GroupSumOver(norm, {i \in StatusRows(norm, status) : ~HasNaKey(norm[i])})

\* pd.merge(backlog, mtd, on=group_cols, how="outer").fillna(0): one row
\* per key of either side, keys in lexicographic order.
MergeRow(backlog, mtd, k) ==
    [SOLDTO |-> k[1], City |-> k[2], Type |-> k[3], Incoterm |-> k[4],
     Backlog |-> IF k \in DOMAIN backlog THEN backlog[k] ELSE 0,
     MTD |-> IF k \in DOMAIN mtd THEN mtd[k] ELSE 0]

MergeKeys(backlog, mtd, keys) ==
    [i \in 1..Len(keys) |-> MergeRow(backlog, mtd, keys[i])]

Merge(backlog, mtd) ==
    MergeKeys(backlog, mtd, SortedKeys(DOMAIN backlog \cup DOMAIN mtd))

\* A value of the variable df: None, or a DataFrame with its rows.
NoTable == [none |-> TRUE, rows |-> <<>>]
DataFrame(rows) == [none |-> FALSE, rows |-> rows]

\* lines 119-135: backlog, mtd and their merge
Aggregate(norm) ==
    Merge(GroupSum(norm, Str_backlog), GroupSum(norm, Str_dispatched))

\* lines 137-139: customers = sorted(df["SOLDTO"].unique()); return df, customers
Loaded(rows) ==
    [df |-> DataFrame(rows),
     customers |-> SortedStrs({rows[i].SOLDTO : i \in 1..Len(rows)})]

\* lines 103-139, missing being the list of line 101
LoadedOrMissing(file, miss) ==
    IF miss # <<>>
    THEN [df |-> NoTable, customers |-> miss]
    ELSE Loaded(Aggregate(NormalizedTable(file.rows)))

load_data(file) == LoadedOrMissing(file, missing(file.columns))

\* ---------------------------------------------------------------- uploads
Row(soldto, city, type, incoterm, status, qty) ==
    [SOLDTO |-> soldto, City |-> city, Type |-> type, Incoterm |-> incoterm,
     Status_Summary |-> status, ORDERED_QUANTITY |-> qty]

\* No file in the uploader (uploaded_file is None).
NoUpload == [name |-> "None", columns |-> <<>>, rows |-> <<>>]

\* Two customers whose identifiers differ only in letter case, padded
\* headers and cells, quantities given as text, a status that is neither
\* backlog nor dispatched and a row with no City.
FileCase ==
    [name |-> "case.xlsx",
     columns |-> <<<<" ">> \o Str_SOLDTO, Str_Type \o <<" ">>, Str_Incoterm,
                   Str_Status_Summary, Str_ORDERED_QUANTITY, Str_City, <<"N","o","t","e">>>>,
     rows |-> <<
        Row(<<"A","1">>, <<"X">>, <<"T">>, <<"F">>, <<" ","B","a","c","k","l","o","g">>, NumCell(5)),
        Row(<<"a","1"," ">>, <<"X">>, <<"T">>, <<"F">>, Str_dispatched, NumCell(2)),
        Row(<<"A","1">>, NA, <<"T">>, <<"F">>, Str_backlog, NumCell(3)),
        Row(<<"A","1">>, <<"X">>, <<"T">>, <<"F">>,
            <<"D","I","S","P","A","T","C","H","E","D"," ">>, TextCell(<<"7">>)),
        Row(<<"a","1">>, <<"W">>, <<"T">>, <<"F">>, Str_backlog, NumCell(1)),
        Row(<<"A","1">>, <<"X">>, <<"T">>, <<"F">>, Str_backlog, TextCell(<<"x">>)),
        Row(<<"a","1">>, <<"X">>, <<"T">>, <<"C">>, <<"h","o","l","d">>, NumCell(9)),
        Row(<<"a","1">>, <<"W">>, <<"T">>, <<"F">>, Str_dispatched, NumCell(1234)) >>]

\* The only customer is blank; one row has no customer, one no status and
\* no quantity.
FileBlank ==
    [name |-> "blank.xlsx",
     columns |-> <<Str_SOLDTO, Str_Type, Str_Incoterm, Str_Status_Summary,
                   Str_ORDERED_QUANTITY, Str_City>>,
     rows |-> <<
        Row(<<" "," ">>, <<"X">>, <<"T">>, <<"F">>, Str_backlog, NumCell(4)),
        Row(NA, <<"X">>, <<"T">>, <<"F">>, Str_dispatched, NumCell(2)),
        Row(<<"a","1">>, <<"X">>, <<"T">>, <<"F">>, NA, NaNCell) >>]

\* Four required columns are missing: "city" is not "City", SOLDTO,
\* Incoterm and ORDERED_QUANTITY are absent; one header is padded.
FileShort ==
    [name |-> "short.xlsx",
     columns |-> <<<<" ">> \o Str_Status_Summary \o <<" ">>, Str_Type,
                   <<"c","i","t","y">>>>,
     rows |-> <<>>]

Uploads == {FileCase, FileBlank, FileShort}

\* ---------------------------------------------------------------- state
VARIABLES
    messages,           \* st.session_state.messages
    selected_customer,  \* st.session_state.selected_customer
    uploaded_file,      \* the file the uploader holds in the browser
    customer_widget,    \* the value the customer selectbox holds in the browser
    question_type,      \* the value of the "What do you want to know?" selectbox
    cache,              \* st.cache_data's entries for load_data: upload -> result
    computations,       \* how many times the body of load_data has run
    df,                 \* the script's df after the last run
    customers_list,     \* the script's customers_list after the last run
    rendered,           \* the elements the last run put on the page
    notice,             \* the st.info / st.error / st.warning of the last run
    event,              \* the interaction that started the last run
    rerun_keeps_widgets \* what the installed Streamlit does at st.rerun(), see Script

vars == <<messages, selected_customer, uploaded_file, customer_widget, question_type,
          cache, computations, df, customers_list, rendered, notice, event,
          rerun_keeps_widgets>>

QuestionTypes == {"Backlog", "MTD", "Backlog & MTD"}

\* ---------------------------------------------------------------- report
\* f"{x:,.2f}" of a whole number.
RECURSIVE DigitsOf(_)
DigitsOf(n) ==
    IF n < 10 THEN <<Digits[n + 1]>>
    ELSE DigitsOf(n \div 10) \o <<Digits[(n % 10) + 1]>>

RECURSIVE Commas(_)
Commas(d) ==
    IF Len(d) <= 3 THEN d
    ELSE Commas(SubSeq(d, 1, Len(d) - 3)) \o <<",">> \o SubSeq(d, Len(d) - 2, Len(d))

Fmt2f(n) ==
    (IF n < 0 THEN <<"-">> ELSE <<>>)
        \o Commas(DigitsOf(IF n < 0 THEN -n ELSE n)) \o <<".", "0", "0">>

\* Variant: df[df["SOLDTO"] == selected_customer], no .lower().
customer_df_CaseSensitive(rows, customer) ==
    SelectSeq(rows, LAMBDA r : r.SOLDTO = customer)

\* df[df["SOLDTO"].str.lower() == selected_customer.lower()]
customer_df(rows, customer) ==
    SelectSeq(rows, LAMBDA r : Lower(r.SOLDTO) = Lower(customer))

\* customer_df.groupby(["City", "Type", "Incoterm"], as_index=False).agg(sum)
BreakdownRow(k, group) ==
    [City |-> k[1], Type |-> k[2], Incoterm |-> k[3],
     Backlog |-> SumSeq([j \in 1..Len(group) |-> group[j].Backlog]),
     MTD |-> SumSeq([j \in 1..Len(group) |-> group[j].MTD])]

BreakdownKeys(cdf, keys) ==
    [i \in 1..Len(keys) |->
        BreakdownRow(keys[i],
            SelectSeq(cdf, LAMBDA r : <<r.City, r.Type, r.Incoterm>> = keys[i]))]

breakdown(cdf) ==
    BreakdownKeys(cdf,
        SortedKeys({<<cdf[i].City, cdf[i].Type, cdf[i].Incoterm>> : i \in 1..Len(cdf)}))

total_backlog(bd) == SumSeq([i \in 1..Len(bd) |-> bd[i].Backlog])
total_mtd(bd) == SumSeq([i \in 1..Len(bd) |-> bd[i].MTD])

\* The lines "- City | Type | Incoterm -> value" of a section ("->" stands
\* for the arrow character of the source).
RECURSIVE BreakdownLines(_, _)
BreakdownLines(bd, metric) ==
    IF bd = <<>> THEN <<>>
    ELSE <<"- ">> \o Head(bd).City \o <<" | ">> \o Head(bd).Type \o <<" | ">>
            \o Head(bd).Incoterm \o <<" -> ">> \o Fmt2f(Head(bd)[metric]) \o <<"\n">>
            \o BreakdownLines(Tail(bd), metric)

\* backlog_text / mtd_text
SectionText(customer, metric, total, bd) ==
    <<"## ">> \o customer \o <<" - ", metric, " Summary\n">>
        \o <<"**Total ", metric, ":** ">> \o Fmt2f(total) \o <<"\n\n">>
        \o <<"### ", metric, " by City, Type and Incoterm\n">>
        \o BreakdownLines(bd, metric)

\* response = "\n\n".join(parts)
JoinParts(qt, backlog_text, mtd_text) ==
    IF qt = "Backlog" THEN backlog_text
    ELSE IF qt = "MTD" THEN mtd_text
    ELSE backlog_text \o <<"\n\n">> \o mtd_text

ResponseText(customer, qt, bd) ==
    JoinParts(qt, SectionText(customer, "Backlog", total_backlog(bd), bd),
                  SectionText(customer, "MTD", total_mtd(bd), bd))

\* "[X]" stands for the cross mark character of the source.
NotPresentText == <<"[X] ERROR: Customer not present in dataset.">>

\* prompt = f"{question_type} for {selected_customer}"
PromptText(qt, customer) == <<qt, " for ">> \o customer

UserMessage(content) == [role |-> "user", content |-> content]
AssistantMessage(content) == [role |-> "assistant", content |-> content]

\* `not st.session_state.selected_customer`
Falsy(x) == x = None \/ x = <<>>

\* ---------------------------------------------------------------- script
\* What one run of the script reads and writes: the session state, the
\* widgets' values, the cache and what the run shows.
World ==
    [messages |-> messages, selected_customer |-> selected_customer,
     uploaded_file |-> uploaded_file, customer_widget |-> customer_widget,
     question_type |-> question_type, cache |-> cache,
     computations |-> computations, df |-> df, customers_list |-> customers_list,
     rendered |-> rendered, notice |-> notice]

TopElements == {"Reset Chat", "Upload Excel File"}
AllElements ==
    TopElements \cup {"Search & Select Customer", "Clear Search",
                      "What do you want to know?", "chat history", "Ask"}

InfoUpload == "info: Upload Excel file to start chatting."
ErrorMissing == "error: Missing required columns"
WarningSelect == "warning: Please select a customer."

EmptyCache == [f \in {} |-> NoTable]

\* load_data(uploaded_file) behind @st.cache_data(show_spinner=True): the
\* entry of this upload when there is one, else the body runs and its
\* result is stored.  No max_entries, no ttl: entries are never evicted.
Computed(entries, count, file, result) ==
    [result |-> result,
     cache |-> [f \in DOMAIN entries \cup {file} |->
                   IF f = file THEN result ELSE entries[f]],
     computations |-> count + 1]

\* Variant: no cache lookup, the body runs at every call.
CachedLoadData_NoLookup(entries, count, file) ==
    Computed(entries, count, file, load_data(file))

CachedLoadData(entries, count, file) ==
    IF file \in DOMAIN entries
    THEN [result |-> entries[file], cache |-> entries, computations |-> count]
    ELSE Computed(entries, count, file, load_data(file))

\* st.stop() at line 69 or 146: the widgets below were not rendered in a run
\* that ended normally, so the browser's values for them are dropped and a
\* later run starts them from their defaults (index=None, first option).
StoppedEarly(w, text) ==
    [w EXCEPT !.rendered = TopElements, !.notice = text,
              !.customer_widget = None, !.question_type = "Backlog"]

\* lines 67-69
StopNoFile(w) ==
    StoppedEarly([w EXCEPT !.df = NoTable, !.customers_list = <<>>], InfoUpload)

\* lines 144-146: df is None and customers_list holds the missing names
StopSchema(w, result) ==
    StoppedEarly([w EXCEPT !.df = result.df, !.customers_list = result.customers],
                 ErrorMissing)

\* st.selectbox("Search & Select Customer", customers_list, index=None): the
\* value the browser holds while the options are those of the last run,
\* else nothing selected.
SelectboxValue(w, options) ==
    IF w.customers_list = options THEN w.customer_widget ELSE None

\* Variant: Reset Chat resets the selection as Clear Search does.
ResetChat_AlsoSelection(w) ==
    [w EXCEPT !.messages = <<>>, !.selected_customer = None]

\* lines 58-59
ResetChat(w) == [w EXCEPT !.messages = <<>>]

\* lines 162-164
ClearSearch(w) == [w EXCEPT !.selected_customer = None, !.messages = <<>>]

\* lines 195-239, the user's prompt being appended already
Answer(w, customer, cdf) ==
    IF cdf = <<>>
    THEN [w EXCEPT !.messages = Append(w.messages, AssistantMessage(NotPresentText))]
    ELSE [w EXCEPT !.messages = Append(w.messages, AssistantMessage(
             ResponseText(customer, w.question_type, breakdown(cdf))))]

\* lines 187-190
Prompted(w) ==
    [w EXCEPT !.messages = Append(w.messages,
        UserMessage(PromptText(w.question_type, w.selected_customer)))]

\* Variant: the prompt is appended before the selection is checked.
AskHandler_AppendBeforeCheck(w) ==
    IF Falsy(w.selected_customer)
    THEN [Prompted(w) EXCEPT !.notice = WarningSelect]
    ELSE Answer(Prompted(w), w.selected_customer,
                customer_df(w.df.rows, w.selected_customer))

\* Variant: the assistant's message is not appended.
AskHandler_NoAssistant(w) ==
    IF Falsy(w.selected_customer)
    THEN [w EXCEPT !.notice = WarningSelect]
    ELSE Prompted(w)

\* lines 181-239
AskHandler(w) ==
    IF Falsy(w.selected_customer)
    THEN [w EXCEPT !.notice = WarningSelect]
    ELSE Answer(Prompted(w), w.selected_customer,
                customer_df(w.df.rows, w.selected_customer))

\* lines 153-159: the selectbox is rendered and its value stored
Selected(w, result, value) ==
    [w EXCEPT !.df = result.df,
              !.customers_list = result.customers,
              !.selected_customer = value,
              !.customer_widget = value,
              !.rendered = AllElements,
              !.notice = "none"]

\* lines 142-159, c being what the cached call of line 142 gave
Loaded142(w, c) ==
    IF c.result.df.none
    THEN StopSchema([w EXCEPT !.cache = c.cache, !.computations = c.computations],
                    c.result)
    ELSE Selected([w EXCEPT !.cache = c.cache, !.computations = c.computations],
                  c.result, SelectboxValue(w, c.result.customers))

\* lines 65-159 of a run in which no button is pressed
RunToSelect(w) ==
    IF w.uploaded_file = NoUpload THEN StopNoFile(w)
    ELSE Loaded142(w, CachedLoadData(w.cache, w.computations, w.uploaded_file))

\* lines 161-239, w being the run's state after line 159 or its st.stop().
\* st.rerun() ends the run and starts another one, in which no button is
\* pressed and the widgets hold the values they had.
AfterSelect(w, click) ==
    IF "Ask" \notin w.rendered THEN w
    ELSE IF click = "Clear Search" THEN RunToSelect(ClearSearch(w))
    ELSE IF click = "Ask" THEN AskHandler(w)
    ELSE w

\* One run of the script with what it starts by st.rerun().  click is the
\* button pressed ("none" when another widget started the run).
\*
\* "Reset Chat" calls st.rerun() at line 60, above every other widget.  What
\* the run that follows gets from the widgets below depends on the Streamlit
\* installed, which the repository does not pin: either the values they had
\* (keeps), or, the interrupted run counting as a finished one in which they
\* were not rendered, their defaults, the uploader's being "no file".  The
\* browser holds the uploaded file in both cases.  "Clear Search" calls
\* st.rerun() at line 165, below the uploader and the customer selectbox,
\* which keep their values in both cases.
Script(w, click, keeps) ==
    IF click = "Reset Chat"
    THEN IF keeps THEN RunToSelect(ResetChat(w)) ELSE StopNoFile(ResetChat(w))
    ELSE AfterSelect(RunToSelect(w), click)

\* ---------------------------------------------------------------- actions
Becomes(w, e) ==
    /\ messages' = w.messages
    /\ selected_customer' = w.selected_customer
    /\ uploaded_file' = w.uploaded_file
    /\ customer_widget' = w.customer_widget
    /\ question_type' = w.question_type
    /\ cache' = w.cache
    /\ computations' = w.computations
    /\ df' = w.df
    /\ customers_list' = w.customers_list
    /\ rendered' = w.rendered
    /\ notice' = w.notice
    /\ event' = e
    /\ UNCHANGED rerun_keeps_widgets

\* The session starts: the first run finds no file.
Init ==
    /\ messages = <<>>
    /\ selected_customer = None
    /\ uploaded_file = NoUpload
    /\ customer_widget = None
    /\ question_type = "Backlog"
    /\ cache = EmptyCache
    /\ computations = 0
    /\ df = NoTable
    /\ customers_list = <<>>
    /\ rendered = TopElements
    /\ notice = InfoUpload
    /\ event = "start"
    /\ rerun_keeps_widgets \in BOOLEAN

\* The user puts a file into the uploader (the one it holds, again, too).
Upload(f) ==
    /\ f \in Uploads
    /\ Becomes(Script([World EXCEPT !.uploaded_file = f], "none", rerun_keeps_widgets),
               "upload")

RemoveFile ==
    /\ uploaded_file # NoUpload
    /\ Becomes(Script([World EXCEPT !.uploaded_file = NoUpload], "none", rerun_keeps_widgets),
               "remove")

SelectCustomer(c) ==
    /\ "Search & Select Customer" \in rendered
    /\ c # customer_widget
    /\ Becomes(Script([World EXCEPT !.customer_widget = c], "none",
                      rerun_keeps_widgets), "select")

SelectQuestion(q) ==
    /\ "What do you want to know?" \in rendered
    /\ q # question_type
    /\ Becomes(Script([World EXCEPT !.question_type = q], "none",
                      rerun_keeps_widgets), "question")

ClickResetChat ==
    /\ "Reset Chat" \in rendered
    /\ Becomes(Script(World, "Reset Chat", rerun_keeps_widgets), "Reset Chat")

ClickClearSearch ==
    /\ "Clear Search" \in rendered
    /\ Becomes(Script(World, "Clear Search", rerun_keeps_widgets), "Clear Search")

ClickAsk ==
    /\ "Ask" \in rendered
    /\ Len(messages) < 2 * MaxAsks
    /\ Becomes(Script(World, "Ask", rerun_keeps_widgets), "Ask")

Next ==
    \/ \E f \in Uploads : Upload(f)
    \/ RemoveFile
    \/ \E c \in {customers_list[i] : i \in 1..Len(customers_list)} \cup {None} :
          SelectCustomer(c)
    \/ \E q \in QuestionTypes : SelectQuestion(q)
    \/ ClickResetChat
    \/ ClickClearSearch
    \/ ClickAsk

Spec == Init /\ [][Next]_vars

\* ---------------------------------------------------------------- claims
Range(s) == {s[i] : i \in 1..Len(s)}

\* The last run reached the customer selector: df is the aggregate table of
\* the upload.
Ready == "Ask" \in rendered

RowKey(r) == <<r.SOLDTO, r.City, r.Type, r.Incoterm>>

\* The required columns no header of the file is, once stripped.
Lacking(file) ==
    {c \in Range(required_cols) :
        \A i \in 1..Len(file.columns) : Strip(file.columns[i]) # c}

LacksColumns(file) == file # NoUpload /\ Lacking(file) # {}

\* C1: the Backlog column of the aggregate table sums to the quantity of all
\* normalized rows whose status is "backlog", and the MTD column to that of
\* all rows whose status is "dispatched".
C1_Conservation ==
    Ready =>
        LET norm == NormalizedTable(uploaded_file.rows)
        IN /\ SumSeq([i \in 1..Len(df.rows) |-> df.rows[i].Backlog])
                = SumQty(norm, StatusRows(norm, Str_backlog))
           /\ SumSeq([i \in 1..Len(df.rows) |-> df.rows[i].MTD])
                = SumQty(norm, StatusRows(norm, Str_dispatched))

\* C2: the aggregate table has exactly one row for each key of a backlog or
\* dispatched normalized row and no other row; a key found among backlog rows
\* only has MTD 0, one found among dispatched rows only has Backlog 0.
C2_OneRowPerKey ==
    Ready =>
        LET norm == NormalizedTable(uploaded_file.rows)
            keysB == {GroupKey(norm[i]) : i \in StatusRows(norm, Str_backlog)}
            keysD == {GroupKey(norm[i]) : i \in StatusRows(norm, Str_dispatched)}
        IN /\ \A k \in keysB \cup keysD :
                Cardinality({i \in 1..Len(df.rows) : RowKey(df.rows[i]) = k}) = 1
           /\ \A i \in 1..Len(df.rows) :
                /\ RowKey(df.rows[i]) \in keysB \cup keysD
                /\ RowKey(df.rows[i]) \notin keysD => df.rows[i].MTD = 0
                /\ RowKey(df.rows[i]) \notin keysB => df.rows[i].Backlog = 0

\* C3: while the uploaded table lacks a required column, no table is exposed
\* and nothing below the uploader is on the page; the run that loads such an
\* upload gets no table and the list of exactly the missing names, shows the
\* error and leaves the messages as they were.
C3_SchemaFailure ==
    /\ [](LacksColumns(uploaded_file) =>
            /\ df = NoTable
            /\ rendered = TopElements
            /\ notice \in {ErrorMissing, InfoUpload}
            /\ uploaded_file \in DOMAIN cache => cache[uploaded_file].df = NoTable
            /\ notice = ErrorMissing =>
                  /\ Range(customers_list) = Lacking(uploaded_file)
                  /\ Len(customers_list) = Cardinality(Lacking(uploaded_file)))
    /\ [][LacksColumns(uploaded_file') /\ event' # "Reset Chat" =>
            /\ notice' = ErrorMissing
            /\ messages' = messages]_vars

C3_Witness ==
    /\ LacksColumns(uploaded_file)
    /\ event = "upload"
    /\ notice = ErrorMissing
    /\ Len(customers_list) = 4
    /\ messages # <<>>

\* C4: once "Clear Search" has completed, no customer is selected and there
\* are no messages, and an Ask that directly follows is stopped by the
\* warning.
C4_ClearSelection ==
    /\ [](event = "Clear Search" => selected_customer = None /\ messages = <<>>)
    /\ [][event = "Clear Search" /\ event' = "Ask" =>
            notice' = WarningSelect /\ messages' = messages]_vars

\* C5: an Ask while no customer is selected shows the warning and changes
\* neither the messages nor the selection.
C5_AskWithoutCustomer ==
    [][event' = "Ask" /\ Falsy(selected_customer) =>
          /\ notice' = WarningSelect
          /\ messages' = messages
          /\ selected_customer' = selected_customer]_vars

C5_Witness ==
    /\ event = "Ask"
    /\ notice = WarningSelect
    /\ Falsy(selected_customer)
    /\ messages # <<>>

\* C6: "Reset Chat" empties the messages and, the run it starts included,
\* leaves the selected customer as it was.
C6_ResetKeepsSelection ==
    [][event' = "Reset Chat" =>
          /\ messages' = <<>>
          /\ selected_customer' = selected_customer]_vars

C6_Witness ==
    /\ event = "Reset Chat"
    /\ selected_customer # None
    /\ messages = <<>>

QueryResultOf(customer, qt, bd) ==
    [breakdown |-> bd,
     totalBacklog |-> total_backlog(bd),
     totalMtd |-> total_mtd(bd),
     report |-> ResponseText(customer, qt, bd)]

QueryResult(rows, customer, qt) ==
    QueryResultOf(customer, qt, breakdown(customer_df(rows, customer)))

\* C8 as stated: two selectable customers that differ only in letter case
\* resolve to the same result, the customer shown included, for every metric
\* choice.
C8_SameQueryResult ==
    Ready =>
        \A c1, c2 \in Range(customers_list) : \A qt \in QuestionTypes :
            Lower(c1) = Lower(c2) =>
                QueryResult(df.rows, c1, qt) = QueryResult(df.rows, c2, qt)

SameButForName(c1, c2, b1, b2) ==
    /\ b1 = b2
    /\ total_backlog(b1) = total_backlog(b2)
    /\ total_mtd(b1) = total_mtd(b2)
    /\ \A qt \in QuestionTypes : ResponseText(c1, qt, b1) # ResponseText(c2, qt, b2)

\* C8 as amended: they resolve to the same breakdown rows and the same
\* totals, whatever the metric choice; each report names the identifier as
\* it was selected, so the two reports differ.
C8_SameRowsAndTotals ==
    Ready =>
        \A c1, c2 \in Range(customers_list) :
            (c1 # c2 /\ Lower(c1) = Lower(c2)) =>
                SameButForName(c1, c2, breakdown(customer_df(df.rows, c1)),
                                       breakdown(customer_df(df.rows, c2)))

\* Two answered questions of the same metric for customers that differ only
\* in letter case: the reports differ.
C8_Witness ==
    /\ Ready
    /\ Len(messages) = 4
    /\ \E c1, c2 \in Range(customers_list) : \E qt \in QuestionTypes :
          /\ c1 # c2
          /\ Lower(c1) = Lower(c2)
          /\ messages[1].content = PromptText(qt, c1)
          /\ messages[3].content = PromptText(qt, c2)
          /\ messages[2].content = QueryResult(df.rows, c1, qt).report
          /\ messages[4].content = QueryResult(df.rows, c2, qt).report
          /\ messages[2].content # messages[4].content

\* The customer selected when Ask runs is always one of the aggregate table:
\* the branch of lines 197-202 is never taken.
CustomerAlwaysPresent ==
    /\ \A i \in 1..Len(messages) : messages[i].content # NotPresentText
    /\ Ready /\ selected_customer # None =>
          \E i \in 1..Len(df.rows) : df.rows[i].SOLDTO = selected_customer

\* C10: the messages are (user, assistant) pairs; a run leaves them as they
\* are, or it is an Ask that passed the selection check and appends one user
\* message and one assistant message after the earlier ones, or it is
\* "Reset Chat" or "Clear Search" and removes them all; every Ask that
\* passes the selection check appends such a pair.
C10_PairedHistory ==
    /\ [](/\ Len(messages) % 2 = 0
          /\ \A i \in 1..Len(messages) :
                messages[i].role = IF i % 2 = 1 THEN "user" ELSE "assistant")
    /\ [][\/ messages' = messages
          \/ /\ event' = "Ask"
             /\ ~Falsy(selected_customer')
             /\ Len(messages') = Len(messages) + 2
             /\ SubSeq(messages', 1, Len(messages)) = messages
             /\ messages'[Len(messages) + 1]
                   = UserMessage(PromptText(question_type', selected_customer'))
             /\ messages'[Len(messages) + 2].role = "assistant"
          \/ /\ event' \in {"Reset Chat", "Clear Search"}
             /\ messages' = <<>>]_vars
    /\ [][event' = "Ask" /\ ~Falsy(selected_customer') =>
             Len(messages') = Len(messages) + 2]_vars

C10_Witness ==
    /\ event = "Ask"
    /\ Len(messages) = 4
    /\ messages[2].content # messages[4].content

====
